---- MODULE Spec2Model ----
(***************************************************************************)
(* Model of the monitoring page (MonitoringPage) of the compression-band   *)
(* front end: the operator's handlers, the serial read loop, the realtime  *)
(* buffer and the throttled upload of readings to the backend.             *)
(*                                                                         *)
(* React state is modelled by one variable per useState/useRef hook.  A    *)
(* handler is split at its awaits: the part before the await is the action *)
(* named after the handler, the part after it is the action that resolves  *)
(* the pending task.  A closure keeps the values of the render in which it *)
(* was created, so a pending task and a running read loop carry the        *)
(* session and isMonitoring values they captured.                          *)
(***************************************************************************)
EXTENDS Integers, Sequences, FiniteSets, Bags, TLC

(* ----------------------------- bounds ---------------------------------- *)
MaxLines == 1       \* lines the device delivers in one behaviour of Spec
MaxNow == 2000      \* last clock value (ms) reached by Tick
MaxConns == 2       \* serial connections opened in one behaviour
MaxSessions == 1    \* sessions created in one behaviour
MaxTasks == 1       \* handler continuations pending at the same time
MaxStream == 600    \* lines the device delivers in one behaviour of SpecBuffer
NumPorts == 1       \* authorized serial ports listed in `ports`
MaxThrottleLines == 4   \* lines the device delivers in one behaviour of SpecThrottle
MaxThrottleNow == 4000  \* last clock value (ms) reached by Elapse
ConnectPorts == 2       \* authorized serial ports in SpecConnect and SpecShutdown

(* ------------------------ program constants ---------------------------- *)
BufferCap == 200            \* up.slice(-200)
ThrottleMs == 1000          \* now - lastSentRef.current >= 1000
PressureMax == 200          \* clamp(reading.measuredPressure, 0, 200)
TempMax == 80               \* clamp(reading.temperature, 0, 80)
DefaultTargetPressure == 30 \* useState<number>(30)
DefaultHoldTimeSeconds == 10 \* useState<number>(10)
StartNow == ThrottleMs       \* Date.now() when the page is mounted: no less than ThrottleMs

PatientIds == {"p1"}
TargetValues == {0, 30}
HoldValues == {0, 10}
TickSteps == {1000}
ThrottleSteps == {500, 1000}

NoPatient == ""
NoErr == ""
NoIo == 0
NoSession == [id |-> 0, patientId |-> "", targetPressure |-> 0, holdTimeSeconds |-> 0]

(* ------------------------- JSON values --------------------------------- *)
\* A JSON value of a decoded object: a number, a string (numeric text or
\* not), null, or undef for a key that is absent.
JNum(n) == [t |-> "num", v |-> n]
JStrNum(n) == [t |-> "strnum", v |-> n]
JStrText == [t |-> "strtext", v |-> 0]
JNull == [t |-> "null", v |-> 0]
JUndef == [t |-> "undef", v |-> 0]

Keys == {"pressure", "measuredPressure", "p", "pr", "temperature", "temp", "t",
         "cycle", "cycleIndex"}
EmptyObj == [k \in Keys |-> JUndef]

\* A line read from the device.  shape: "blank" (empty after trim), "text"
\* (not enclosed in braces), "badjson" (enclosed in braces, JSON.parse
\* throws), "object" (a JSON object, given by obj).
ObjLine(o) == [shape |-> "object", obj |-> o]
TextLine == [shape |-> "text", obj |-> EmptyObj]
BlankLine == [shape |-> "blank", obj |-> EmptyObj]
BadJsonLine == [shape |-> "badjson", obj |-> EmptyObj]
\* no line delivered yet
NoLine == [shape |-> "none", obj |-> EmptyObj]

\* {"pressure":23,"temperature":32,"cycle":1}
LineNormal == ObjLine([EmptyObj EXCEPT !["pressure"] = JNum(23),
                                       !["temperature"] = JNum(32),
                                       !["cycle"] = JNum(1)])
\* {"p":250,"t":10}
LineHighPressure == ObjLine([EmptyObj EXCEPT !["p"] = JNum(250), !["t"] = JNum(10)])
\* {"pr":"-5","temp":90,"cycleIndex":"x"}
LineLowHot == ObjLine([EmptyObj EXCEPT !["pr"] = JStrNum(-5), !["temp"] = JNum(90),
                                       !["cycleIndex"] = JStrText])
\* {"pressure":23}
LineNoTemp == ObjLine([EmptyObj EXCEPT !["pressure"] = JNum(23)])

\* The lines the device may deliver in Spec.
Lines == {LineNormal, LineHighPressure, LineLowHot, TextLine}

\* The lines of the deterministic device stream of SpecBuffer.
StreamLines == <<LineNormal, LineHighPressure, BadJsonLine, LineLowHot, LineNormal,
                 LineNoTemp, TextLine, BlankLine>>
StreamLine(offset, i) == StreamLines[((offset + i) % Len(StreamLines)) + 1]

(* --------------------------- helpers ----------------------------------- *)
NaN == [fin |-> FALSE, v |-> 0]
Fin(n) == [fin |-> TRUE, v |-> n]

\* a ?? b
Coalesce(a, b) == IF a.t \in {"null", "undef"} THEN b ELSE a

\* Number(x) followed by Number.isFinite
ToNumber(x) ==
  CASE x.t = "num" -> Fin(x.v)
    [] x.t = "strnum" -> Fin(x.v)
    [] x.t = "null" -> Fin(0)
    [] OTHER -> NaN

Min(a, b) == IF a < b THEN a ELSE b
Max(a, b) == IF a > b THEN a ELSE b

clamp_identity(n, min, max) == n

clamp(n, min, max) == Max(min, Min(max, n))

NoReading == [ok |-> FALSE, measuredPressure |-> 0, temperature |-> 0,
              hasCycle |-> FALSE, cycleIndex |-> 0]

\* parseLine(line); the timestamp of the row, which only labels it on the
\* screen, is left out
parseLine(line) ==
  IF line.shape # "object" THEN NoReading
  ELSE
    LET obj == line.obj
        pressure == ToNumber(Coalesce(Coalesce(Coalesce(obj["pressure"],
                       obj["measuredPressure"]), obj["p"]), obj["pr"]))
        temp == ToNumber(Coalesce(Coalesce(obj["temperature"], obj["temp"]), obj["t"]))
        cycle == Coalesce(obj["cycle"], obj["cycleIndex"])
    IN IF pressure.fin /\ temp.fin
       THEN [ok |-> TRUE, measuredPressure |-> pressure.v,
             temperature |-> temp.v,
             hasCycle |-> (cycle.t = "num" \/ ToNumber(cycle).fin),
             cycleIndex |-> IF cycle.t = "num" THEN cycle.v
                            ELSE IF ToNumber(cycle).fin THEN ToNumber(cycle).v ELSE 0]
       ELSE NoReading

\* s.slice(-n)
SliceLast(s, n) == IF Len(s) <= n THEN s ELSE SubSeq(s, Len(s) - n + 1, Len(s))

AppendReading_nocap(prev, reading) == Append(prev, reading)

AppendReading_keepfirst(prev, reading) ==
  IF Len(prev) < BufferCap THEN Append(prev, reading) ELSE prev

\* setRealtime((prev) => [...prev, reading].slice(-200))
AppendReading(prev, reading) == SliceLast(Append(prev, reading), BufferCap)

(* ----------------------------- state ------------------------------------ *)
VARIABLES
  patientId,          \* useState<string>("")
  session,            \* useState<Session | null>(null)
  targetPressure,     \* useState<number>(30)
  holdTimeSeconds,    \* useState<number>(10)
  selectedPortIdx,    \* useState<number>(-1)
  io,                 \* useState<SerialIO | null>(null): index into conns, or NoIo
  isMonitoring,       \* useState(false)
  startedFromDevice,  \* useState(false)
  loading,            \* useState(false)
  err,                \* useState<string | null>(null)
  realtime,           \* useState<RealtimeRow[]>([])
  lastSentRef,        \* useRef<number>(0)
  closeLoopRef,       \* useRef<boolean>(false)
  now,                \* Date.now()
  conns,              \* the SerialIO objects returned by openPort, each with its readLoop
  tasks,              \* bag of handler continuations waiting on an await
  nextSession,        \* id the backend gives to the next session it creates
  linesRead,          \* lines the device has delivered so far
  stream,             \* offset of the device stream (SpecBuffer)
  lastOp,             \* history: "reset" after handleReset was called, "reset_cont" after
                      \* its clearing step ran past the await, "upload_fail" after an
                      \* addData call threw, "create_rejected" after Create was pressed
                      \* while disabled, "other" after any other step
  monCause,           \* history: what last turned isMonitoring from false to true
  accepted,           \* history: readings appended since realtime was last emptied
  sent,               \* history: the addData calls dispatched to the backend
  lastOfferAt,        \* history: clock value when the last reading was accepted, 0 if none
  lastLine,           \* history: the last line the device delivered
  taskCap             \* handler continuations that may be pending at the same time

ctl == <<patientId, session, targetPressure, holdTimeSeconds, selectedPortIdx, io,
         isMonitoring, startedFromDevice, loading, err, realtime>>
refs == <<lastSentRef, closeLoopRef>>
env == <<now, conns, tasks, nextSession, linesRead, stream, taskCap>>
hist == <<lastOp, monCause, accepted, sent, lastOfferAt, lastLine>>
vars == <<ctl, refs, env, hist>>

Task(kind, conn, port, sess, mon, reset) ==
  [kind |-> kind, conn |-> conn, port |-> port, session |-> sess,
   isMonitoring |-> mon, reset |-> reset]

Pending(kind) == {t \in BagToSet(tasks) : t.kind = kind}
AddTask(t) == tasks (+) SetToBag({t})
RemoveTask(t) == tasks (-) SetToBag({t})
RoomForTask == BagCardinality(tasks) < taskCap
PendingOpens == BagCardinality([t \in Pending("open") |-> tasks[t]])

(* ------------------- derived values of a render ------------------------ *)
canCreateSession ==
  patientId # NoPatient /\ session = NoSession /\ targetPressure > 0 /\ holdTimeSeconds > 0
canPickDevice == session # NoSession /\ ~isMonitoring
isConnected == io # NoIo
canConnect == session # NoSession /\ selectedPortIdx >= 0 /\ ~isConnected
canStart == session # NoSession /\ isConnected /\ ~isMonitoring
canStop == session # NoSession /\ isMonitoring
canReset_sessiononly == ~isMonitoring /\ session # NoSession

canReset == ~isMonitoring /\ (session # NoSession \/ patientId # NoPatient)

Init ==
  /\ patientId = NoPatient
  /\ session = NoSession
  /\ targetPressure = DefaultTargetPressure
  /\ holdTimeSeconds = DefaultHoldTimeSeconds
  /\ selectedPortIdx = -1
  /\ io = NoIo
  /\ isMonitoring = FALSE
  /\ startedFromDevice = FALSE
  /\ loading = FALSE
  /\ err = NoErr
  /\ realtime = <<>>
  /\ lastSentRef = 0
  /\ closeLoopRef = FALSE
  /\ now = StartNow
  /\ conns = <<>>
  /\ tasks = EmptyBag
  /\ nextSession = 1
  /\ linesRead = 0
  /\ stream = 0
  /\ lastOp = "other"
  /\ monCause = "none"
  /\ accepted = <<>>
  /\ sent = <<>>
  /\ lastOfferAt = 0
  /\ lastLine = NoLine
  /\ taskCap = MaxTasks

(* ------------------------ session configuration ------------------------ *)
\* <select value={patientId} onChange=... disabled={!!session || loading}>
SelectPatient(p) ==
  /\ session = NoSession /\ ~loading
  /\ p # patientId
  /\ patientId' = p
  /\ lastOp' = "other"
  /\ UNCHANGED <<session, targetPressure, holdTimeSeconds, selectedPortIdx, io,
                 isMonitoring, startedFromDevice, loading, err, realtime,
                 refs, env, monCause, accepted, sent, lastOfferAt, lastLine>>

\* <Input value={targetPressure} onChange=... disabled={!!session}>
SetTargetPressure(v) ==
  /\ session = NoSession
  /\ v # targetPressure
  /\ targetPressure' = v
  /\ lastOp' = "other"
  /\ UNCHANGED <<patientId, session, holdTimeSeconds, selectedPortIdx, io,
                 isMonitoring, startedFromDevice, loading, err, realtime,
                 refs, env, monCause, accepted, sent, lastOfferAt, lastLine>>

\* <Input value={holdTimeSeconds} onChange=... disabled={!!session}>
SetHoldTimeSeconds(v) ==
  /\ session = NoSession
  /\ v # holdTimeSeconds
  /\ holdTimeSeconds' = v
  /\ lastOp' = "other"
  /\ UNCHANGED <<patientId, session, targetPressure, selectedPortIdx, io,
                 isMonitoring, startedFromDevice, loading, err, realtime,
                 refs, env, monCause, accepted, sent, lastOfferAt, lastLine>>

\* handleCreateSession up to the await of sessionService.create
CreateEnabled_always == TRUE

\* <Button onClick={handleCreateSession} disabled={!canCreateSession || loading}>
CreateEnabled == canCreateSession /\ ~loading

\* handleCreateSession up to the await: its only check is the patient
CreateBody ==
  /\ patientId # NoPatient
  /\ nextSession <= MaxSessions /\ RoomForTask
  /\ loading' = TRUE
  /\ err' = NoErr
  /\ tasks' = AddTask(Task("create", NoIo, -1,
                 [id |-> 0, patientId |-> patientId, targetPressure |-> targetPressure,
                  holdTimeSeconds |-> holdTimeSeconds], FALSE, FALSE))
  /\ lastOp' = "other"
  /\ UNCHANGED <<patientId, session, targetPressure, holdTimeSeconds, selectedPortIdx,
                 io, isMonitoring, startedFromDevice, realtime, refs,
                 now, conns, nextSession, linesRead, stream, taskCap, monCause, accepted, sent, lastOfferAt, lastLine>>

\* the Create button is pressed while it is enabled
HandleCreateSession == CreateEnabled /\ CreateBody

\* the Create button is pressed in any state: a disabled button does not
\* call its handler
CreateAttempt ==
  \/ HandleCreateSession
  \/ /\ ~CreateEnabled
     /\ lastOp' = "create_rejected"
     /\ UNCHANGED <<ctl, refs, env, monCause, accepted, sent, lastOfferAt, lastLine>>

CreateResolve_nostore(t, ok) ==
  /\ t \in Pending("create")
  /\ tasks' = RemoveTask(t)
  /\ loading' = FALSE
  /\ nextSession' = IF ok THEN nextSession + 1 ELSE nextSession
  /\ err' = IF ok THEN err ELSE "create"
  /\ lastOp' = "other"
  /\ UNCHANGED <<patientId, session, targetPressure, holdTimeSeconds, selectedPortIdx, io,
                 isMonitoring, startedFromDevice, realtime, refs,
                 now, conns, linesRead, stream, taskCap, monCause, accepted, sent,
                 lastOfferAt, lastLine>>

\* handleCreateSession after the await: the backend answers or fails
CreateResolve(t, ok) ==
  /\ t \in Pending("create")
  /\ tasks' = RemoveTask(t)
  /\ loading' = FALSE
  /\ IF ok
     THEN /\ session' = [t.session EXCEPT !.id = nextSession]
          /\ nextSession' = nextSession + 1
          /\ err' = err
          /\ lastOp' = "other"
     ELSE /\ err' = "create"
          /\ lastOp' = "other"
          /\ UNCHANGED <<session, nextSession>>
  /\ UNCHANGED <<patientId, targetPressure, holdTimeSeconds, selectedPortIdx, io,
                 isMonitoring, startedFromDevice, realtime, refs,
                 now, conns, linesRead, stream, taskCap, monCause, accepted, sent, lastOfferAt, lastLine>>

(* --------------------------- device ------------------------------------ *)
\* <select value={selectedPortIdx} onChange=... disabled={!canPickDevice}>
SelectPort(i) ==
  /\ canPickDevice
  /\ i # selectedPortIdx
  /\ selectedPortIdx' = i
  /\ lastOp' = "other"
  /\ UNCHANGED <<patientId, session, targetPressure, holdTimeSeconds, io,
                 isMonitoring, startedFromDevice, loading, err, realtime,
                 refs, env, monCause, accepted, sent, lastOfferAt, lastLine>>

\* handleRequestPort: the user grants port i, or cancels the prompt
HandleRequestPort(granted, i) ==
  /\ canPickDevice
  /\ err' = NoErr
  /\ selectedPortIdx' = IF granted THEN i ELSE selectedPortIdx
  /\ lastOp' = "other"
  /\ UNCHANGED <<patientId, session, targetPressure, holdTimeSeconds, io,
                 isMonitoring, startedFromDevice, loading, realtime,
                 refs, env, monCause, accepted, sent, lastOfferAt, lastLine>>

\* handleConnect up to the await of openPort
HandleConnect ==
  /\ canConnect
  /\ selectedPortIdx >= 0
  /\ Len(conns) + PendingOpens < MaxConns /\ RoomForTask
  /\ err' = NoErr
  /\ tasks' = AddTask(Task("open", NoIo, selectedPortIdx, session, isMonitoring, FALSE))
  /\ lastOp' = "other"
  /\ UNCHANGED <<patientId, session, targetPressure, holdTimeSeconds, selectedPortIdx,
                 io, isMonitoring, startedFromDevice, loading, realtime, refs,
                 now, conns, nextSession, linesRead, stream, taskCap, monCause, accepted, sent, lastOfferAt, lastLine>>

PortClaimed(port) == \E c \in 1..Len(conns) : conns[c].port = port /\ conns[c].open

\* handleConnect after the await: setIo, closeLoopRef.current = false and the
\* first pass of readLoop down to its reader.read(); or the catch branch
OpenResolve(t, ok) ==
  /\ t \in Pending("open")
  /\ ok => ~PortClaimed(t.port)
  /\ tasks' = RemoveTask(t)
  /\ IF ok
     THEN /\ conns' = Append(conns, [port |-> t.port, open |-> TRUE, pc |-> "reading",
                                     session |-> t.session,
                                     isMonitoring |-> t.isMonitoring])
          /\ io' = Len(conns) + 1
          /\ closeLoopRef' = FALSE
          /\ err' = err
          /\ lastOp' = "other"
     ELSE /\ err' = "open"
          /\ lastOp' = "other"
          /\ UNCHANGED <<conns, io, closeLoopRef>>
  /\ UNCHANGED <<patientId, session, targetPressure, holdTimeSeconds, selectedPortIdx,
                 isMonitoring, startedFromDevice, loading, realtime, lastSentRef,
                 now, nextSession, linesRead, stream, taskCap, monCause, accepted, sent, lastOfferAt, lastLine>>

\* handleDisconnect up to the await of io.close()
HandleDisconnect ==
  /\ isConnected
  /\ RoomForTask
  /\ closeLoopRef' = TRUE
  /\ tasks' = AddTask(Task("close", io, -1, NoSession, FALSE, FALSE))
  /\ lastOp' = "other"
  /\ UNCHANGED <<ctl, lastSentRef, now, conns, nextSession, linesRead, stream, taskCap,
                 monCause, accepted, sent, lastOfferAt, lastLine>>

\* handleReset, lines 247-254: the clearing step
ResetClear_keepconfig ==
  /\ realtime' = <<>>
  /\ accepted' = <<>>
  /\ startedFromDevice' = FALSE
  /\ session' = NoSession
  /\ patientId' = NoPatient
  /\ err' = NoErr
  /\ selectedPortIdx' = -1
  /\ UNCHANGED <<targetPressure, holdTimeSeconds>>

ResetClear ==
  /\ realtime' = <<>>
  /\ accepted' = <<>>
  /\ startedFromDevice' = FALSE
  /\ session' = NoSession
  /\ patientId' = NoPatient
  /\ err' = NoErr
  /\ selectedPortIdx' = -1
  /\ targetPressure' = DefaultTargetPressure
  /\ holdTimeSeconds' = DefaultHoldTimeSeconds

\* handleDisconnect after the await of io.close(): setIo(null); when the
\* disconnect was awaited by handleReset, the clearing step follows
CloseResolve(t) ==
  /\ t \in Pending("close")
  /\ tasks' = RemoveTask(t)
  /\ conns' = [conns EXCEPT ![t.conn].open = FALSE]
  /\ io' = NoIo
  /\ IF t.reset
     THEN /\ ResetClear
          /\ lastOp' = "reset_cont"
     ELSE /\ lastOp' = "other"
          /\ UNCHANGED <<patientId, session, targetPressure, holdTimeSeconds,
                         selectedPortIdx, startedFromDevice, err, realtime, accepted>>
  /\ UNCHANGED <<isMonitoring, loading, refs, now, nextSession, linesRead, stream, taskCap,
                 monCause, sent, lastOfferAt, lastLine>>

\* handleReset past its guard: await handleDisconnect(), then the clearing step
ResetBody ==
  IF io = NoIo
  THEN /\ ResetClear
       /\ lastOp' = "reset"
       /\ UNCHANGED <<io, isMonitoring, loading, refs, env, monCause, sent, lastOfferAt, lastLine>>
  ELSE /\ RoomForTask
       /\ closeLoopRef' = TRUE
       /\ tasks' = AddTask(Task("close", io, -1, NoSession, FALSE, TRUE))
       /\ lastOp' = "reset"
       /\ UNCHANGED <<ctl, lastSentRef, now, conns, nextSession, linesRead, stream, taskCap,
                      monCause, accepted, sent, lastOfferAt, lastLine>>

HandleReset_noguard ==
  /\ canReset \/ isMonitoring
  /\ ResetBody

\* handleReset, called through its button (enabled iff canReset) or while
\* isMonitoring is true, the case its guard returns on
HandleReset ==
  /\ canReset \/ isMonitoring
  /\ IF isMonitoring
     THEN /\ lastOp' = "reset"
          /\ UNCHANGED <<ctl, refs, env, monCause, accepted, sent, lastOfferAt, lastLine>>
     ELSE ResetBody

(* ------------------------- start and stop ------------------------------ *)
\* handleStart up to the await of writeLine(io.writer, "I")
HandleStart ==
  /\ canStart
  /\ io # NoIo /\ session # NoSession
  /\ RoomForTask
  /\ err' = NoErr
  /\ startedFromDevice' = FALSE
  /\ tasks' = AddTask(Task("start", io, -1, NoSession, FALSE, FALSE))
  /\ lastOp' = "other"
  /\ UNCHANGED <<patientId, session, targetPressure, holdTimeSeconds, selectedPortIdx,
                 io, isMonitoring, loading, realtime, refs,
                 now, conns, nextSession, linesRead, stream, taskCap, monCause, accepted, sent, lastOfferAt, lastLine>>

\* handleStart after the await: setIsMonitoring(true), unless writeLine threw
StartResolve(t, ok) ==
  /\ t \in Pending("start")
  /\ ok => conns[t.conn].open
  /\ tasks' = RemoveTask(t)
  /\ IF ok
     THEN /\ isMonitoring' = TRUE
          /\ monCause' = IF isMonitoring THEN monCause ELSE "operator"
          /\ lastOp' = "other"
     ELSE /\ lastOp' = "other"
          /\ UNCHANGED <<isMonitoring, monCause>>
  /\ UNCHANGED <<patientId, session, targetPressure, holdTimeSeconds, selectedPortIdx,
                 io, startedFromDevice, loading, err, realtime, refs,
                 now, conns, nextSession, linesRead, stream, taskCap, accepted, sent, lastOfferAt, lastLine>>

\* handleStop up to the await of writeLine(io.writer, "S"); with no io the
\* handler returns at once
HandleStop ==
  /\ canStop
  /\ IF io = NoIo \/ session = NoSession
     THEN /\ lastOp' = "other"
          /\ UNCHANGED <<ctl, refs, env, monCause, accepted, sent, lastOfferAt, lastLine>>
     ELSE /\ RoomForTask
          /\ err' = NoErr
          /\ tasks' = AddTask(Task("stop", io, -1, NoSession, FALSE, FALSE))
          /\ lastOp' = "other"
          /\ UNCHANGED <<patientId, session, targetPressure, holdTimeSeconds,
                         selectedPortIdx, io, isMonitoring, startedFromDevice, loading,
                         realtime, refs, now, conns, nextSession, linesRead, stream, taskCap,
                         monCause, accepted, sent, lastOfferAt, lastLine>>

\* handleStop after the await: setIsMonitoring(false), unless writeLine threw
StopResolve(t, ok) ==
  /\ t \in Pending("stop")
  /\ ok => conns[t.conn].open
  /\ tasks' = RemoveTask(t)
  /\ IF ok
     THEN /\ isMonitoring' = FALSE
          /\ lastOp' = "other"
     ELSE /\ lastOp' = "other"
          /\ UNCHANGED isMonitoring
  /\ UNCHANGED <<patientId, session, targetPressure, holdTimeSeconds, selectedPortIdx,
                 io, startedFromDevice, loading, err, realtime, refs,
                 now, conns, nextSession, linesRead, stream, taskCap, monCause, accepted, sent, lastOfferAt, lastLine>>

(* --------------------------- read loop --------------------------------- *)
\* while (!closeLoopRef.current): the loop ends, or waits on reader.read().
\* A loop that has ended no longer holds the values its closure captured.
Ended_continue(conn) == [conn EXCEPT !.pc = "reading"]

Ended(conn) == [conn EXCEPT !.pc = "done", !.session = NoSession, !.isMonitoring = FALSE]
LoopTop(conn) == IF closeLoopRef THEN Ended(conn) ELSE [conn EXCEPT !.pc = "reading"]

\* the argument of sessionService.addData, with the time of the call and
\* the reading it was made from
AddDataCall(sess, reading) ==
  [at |-> now, sessionId |-> sess.id,
   measuredPressure |-> clamp(reading.measuredPressure, 0, PressureMax),
   temperature |-> clamp(reading.temperature, 0, TempMax),
   hasCycle |-> reading.hasCycle, cycleIndex |-> reading.cycleIndex,
   reading |-> reading]

ThrottleDue_nothrottle(sess) == sess # NoSession

ThrottleDue_strict(sess) == sess # NoSession /\ now - lastSentRef > ThrottleMs

\* if (session && now - lastSentRef.current >= 1000)
ThrottleDue(sess) == sess # NoSession /\ now - lastSentRef >= ThrottleMs

Discard_logged(c) ==
  /\ conns' = [conns EXCEPT ![c] = LoopTop(conns[c])]
  /\ lastOp' = "other"
  /\ err' = "parse"
  /\ UNCHANGED <<isMonitoring, startedFromDevice, realtime, lastSentRef,
                 monCause, accepted, sent, lastOfferAt>>

\* if (!value) continue; if (!reading) continue;
Discard(c) ==
  /\ conns' = [conns EXCEPT ![c] = LoopTop(conns[c])]
  /\ lastOp' = "other"
  /\ UNCHANGED <<isMonitoring, startedFromDevice, realtime, lastSentRef, err,
                 monCause, accepted, sent, lastOfferAt>>

\* readLoop of connection c: reader.read() yields a line; one pass of the
\* loop body down to the next await
ReadValue(c, line) ==
  /\ c \in 1..Len(conns)
  /\ conns[c].pc = "reading" /\ conns[c].open
  /\ linesRead' = linesRead + 1
  /\ lastLine' = line
  /\ LET reading == parseLine(line)
         cap == conns[c]
         detect == cap.session # NoSession /\ ~cap.isMonitoring
         upload == ThrottleDue(cap.session)
     IN IF line.shape = "blank" \/ ~reading.ok
        THEN Discard(c)
        ELSE /\ isMonitoring' = IF detect THEN TRUE ELSE isMonitoring
             /\ startedFromDevice' = IF detect THEN TRUE ELSE startedFromDevice
             /\ monCause' = IF detect /\ ~isMonitoring THEN "device" ELSE monCause
             /\ realtime' = AppendReading(realtime, reading)
             /\ accepted' = Append(accepted, reading)
             /\ lastOfferAt' = now
             /\ IF upload
                THEN /\ lastSentRef' = now
                     /\ sent' = Append(sent, AddDataCall(cap.session, reading))
                     /\ conns' = [conns EXCEPT ![c].pc = "uploading"]
                ELSE /\ conns' = [conns EXCEPT ![c] = LoopTop(conns[c])]
                     /\ UNCHANGED <<lastSentRef, sent>>
             /\ lastOp' = "other"
             /\ err' = err
  /\ UNCHANGED <<patientId, session, targetPressure, holdTimeSeconds, selectedPortIdx,
                 io, loading, closeLoopRef, now, tasks, nextSession, stream, taskCap>>

\* readLoop of connection c: reader.read() reports done, or throws
ReadEnd(c, done) ==
  /\ c \in 1..Len(conns)
  /\ conns[c].pc = "reading"
  /\ conns' = [conns EXCEPT ![c] = Ended(conns[c])]
  /\ IF done
     THEN /\ lastOp' = "other"
          /\ err' = err
     ELSE IF closeLoopRef
          THEN /\ lastOp' = "other"
               /\ err' = err
          ELSE /\ lastOp' = "other"
               /\ err' = "read"
  /\ UNCHANGED <<patientId, session, targetPressure, holdTimeSeconds, selectedPortIdx,
                 io, isMonitoring, startedFromDevice, loading, realtime, refs,
                 now, tasks, nextSession, linesRead, stream, taskCap, monCause, accepted, sent, lastOfferAt, lastLine>>

UploadResolve_surface(c, ok) ==
  /\ c \in 1..Len(conns)
  /\ conns[c].pc = "uploading"
  /\ conns' = [conns EXCEPT ![c] = IF ok THEN LoopTop(conns[c]) ELSE Ended(conns[c])]
  /\ err' = IF ok THEN err ELSE "upload"
  /\ lastOp' = IF ok THEN "other" ELSE "upload_fail"
  /\ UNCHANGED <<patientId, session, targetPressure, holdTimeSeconds, selectedPortIdx,
                 io, isMonitoring, startedFromDevice, loading, realtime, refs,
                 now, tasks, nextSession, linesRead, stream, taskCap,
                 monCause, accepted, sent, lastOfferAt, lastLine>>

\* readLoop of connection c: the awaited addData call returns or throws
UploadResolve(c, ok) ==
  /\ c \in 1..Len(conns)
  /\ conns[c].pc = "uploading"
  /\ conns' = [conns EXCEPT ![c] = LoopTop(conns[c])]
  /\ lastOp' = IF ok THEN "other" ELSE "upload_fail"
  /\ UNCHANGED <<ctl, refs, now, tasks, nextSession, linesRead, stream, taskCap,
                 monCause, accepted, sent, lastOfferAt, lastLine>>

\* the clock advances
Tick(d) ==
  /\ now + d <= MaxNow
  /\ now' = now + d
  /\ lastOp' = "other"
  /\ UNCHANGED <<ctl, refs, conns, tasks, nextSession, linesRead, stream, taskCap,
                 monCause, accepted, sent, lastOfferAt, lastLine>>

(* ------------------------- specifications ------------------------------ *)
Configure ==
  \/ \E p \in PatientIds \cup {NoPatient} : SelectPatient(p)
  \/ \E v \in TargetValues : SetTargetPressure(v)
  \/ \E v \in HoldValues : SetHoldTimeSeconds(v)
  \/ \E i \in -1..(NumPorts - 1) : SelectPort(i)
  \/ \E g \in BOOLEAN, i \in 0..(NumPorts - 1) : HandleRequestPort(g, i)

Resolve ==
  \/ \E t \in BagToSet(tasks), ok \in BOOLEAN : CreateResolve(t, ok)
  \/ \E t \in BagToSet(tasks), ok \in BOOLEAN : OpenResolve(t, ok)
  \/ \E t \in BagToSet(tasks) : CloseResolve(t)
  \/ \E t \in BagToSet(tasks), ok \in BOOLEAN : StartResolve(t, ok)
  \/ \E t \in BagToSet(tasks), ok \in BOOLEAN : StopResolve(t, ok)

DeviceLine == linesRead < MaxLines /\ \E c \in 1..Len(conns), line \in Lines : ReadValue(c, line)

Loop ==
  \/ DeviceLine
  \/ \E c \in 1..Len(conns), done \in BOOLEAN : ReadEnd(c, done)
  \/ \E c \in 1..Len(conns), ok \in BOOLEAN : UploadResolve(c, ok)

Next ==
  \/ Configure
  \/ HandleCreateSession
  \/ HandleConnect
  \/ HandleDisconnect
  \/ HandleStart
  \/ HandleStop
  \/ HandleReset
  \/ Resolve
  \/ Loop
  \/ \E d \in TickSteps : Tick(d)

Spec == Init /\ [][Next]_vars

\* A session has been created and its device connected: the read loop waits
\* on its first read.  The device then delivers the lines of one stream.
InitBuffer ==
  /\ patientId = "p1"
  /\ targetPressure \in TargetValues \ {0}
  /\ holdTimeSeconds = DefaultHoldTimeSeconds
  /\ session = [id |-> 1, patientId |-> "p1", targetPressure |-> targetPressure,
                holdTimeSeconds |-> DefaultHoldTimeSeconds]
  /\ selectedPortIdx = 0
  /\ io = 1
  /\ isMonitoring = FALSE
  /\ startedFromDevice = FALSE
  /\ loading = FALSE
  /\ err = NoErr
  /\ realtime = <<>>
  /\ lastSentRef = 0
  /\ closeLoopRef = FALSE
  /\ now = StartNow
  /\ conns = <<[port |-> 0, open |-> TRUE, pc |-> "reading", session |-> session,
               isMonitoring |-> FALSE]>>
  /\ tasks = EmptyBag
  /\ nextSession = 2
  /\ linesRead = 0
  /\ stream \in 0..(Len(StreamLines) - 1)
  /\ lastOp = "other"
  /\ monCause = "none"
  /\ accepted = <<>>
  /\ sent = <<>>
  /\ lastOfferAt = 0
  /\ lastLine = NoLine
  /\ taskCap = MaxTasks

StreamRead == linesRead < MaxStream /\ ReadValue(1, StreamLine(stream, linesRead))

NextBuffer ==
  \/ StreamRead
  \/ \E ok \in BOOLEAN : UploadResolve(1, ok)

SpecBuffer == InitBuffer /\ [][NextBuffer]_vars

\* The lines the device may deliver in SpecThrottle.
ThrottleLines == {LineNormal, TextLine}

ThrottleLine ==
  linesRead < MaxThrottleLines /\ \E line \in ThrottleLines : ReadValue(1, line)

\* Date.now() as the loop reads it: the clock advances between two lines
Elapse(d) ==
  /\ now + d <= MaxThrottleNow
  /\ now' = now + d
  /\ lastOp' = "other"
  /\ UNCHANGED <<ctl, refs, conns, tasks, nextSession, linesRead, stream, taskCap,
                 monCause, accepted, sent, lastOfferAt, lastLine>>

NextThrottle ==
  \/ ThrottleLine
  \/ \E ok \in BOOLEAN : UploadResolve(1, ok)
  \/ \E d \in ThrottleSteps : Elapse(d)

\* The connected loop of InitBuffer, fed lines at irregular intervals.
SpecThrottle == InitBuffer /\ [][NextThrottle]_vars

NextCreate ==
  \/ Configure
  \/ CreateAttempt
  \/ \E t \in BagToSet(tasks), ok \in BOOLEAN : CreateResolve(t, ok)
  \/ HandleReset
  \/ \E d \in TickSteps : Tick(d)

\* The operator configures the protocol and presses Create at any time.
SpecCreate == Init /\ [][NextCreate]_vars

\* A session has been created and a port selected; nothing is connected yet.
\* One more handler continuation may be pending than in Spec, so that Connect
\* can be pressed again while an open is in progress.
InitConnect ==
  /\ patientId = "p1"
  /\ targetPressure = DefaultTargetPressure
  /\ holdTimeSeconds = DefaultHoldTimeSeconds
  /\ session = [id |-> 1, patientId |-> "p1", targetPressure |-> DefaultTargetPressure,
                holdTimeSeconds |-> DefaultHoldTimeSeconds]
  /\ selectedPortIdx = 0
  /\ io = NoIo
  /\ isMonitoring = FALSE
  /\ startedFromDevice = FALSE
  /\ loading = FALSE
  /\ err = NoErr
  /\ realtime = <<>>
  /\ lastSentRef = 0
  /\ closeLoopRef = FALSE
  /\ now = StartNow
  /\ conns = <<>>
  /\ tasks = EmptyBag
  /\ nextSession = 2
  /\ linesRead = 0
  /\ stream = 0
  /\ lastOp = "other"
  /\ monCause = "none"
  /\ accepted = <<>>
  /\ sent = <<>>
  /\ lastOfferAt = 0
  /\ lastLine = NoLine
  /\ taskCap = MaxTasks + 1

NextConnect ==
  \/ \E i \in -1..(ConnectPorts - 1) : SelectPort(i)
  \/ HandleConnect
  \/ \E t \in BagToSet(tasks), ok \in BOOLEAN : OpenResolve(t, ok)
  \/ HandleDisconnect
  \/ \E t \in BagToSet(tasks) : CloseResolve(t)
  \/ \E c \in 1..Len(conns), done \in BOOLEAN : ReadEnd(c, done)
  \/ \E d \in TickSteps : Tick(d)

\* The operator connects and disconnects at any time.
SpecConnect == InitConnect /\ [][NextConnect]_vars

\* The JSON objects the device may send in SpecParse: every alias absent,
\* null or carrying a value of its own; some as text, numeric or not.
ParseObjs ==
  [pressure : {JUndef, JNull, JNum(11), JStrText},
   measuredPressure : {JUndef, JNull, JNum(12)},
   p : {JUndef, JNull, JNum(13)},
   pr : {JUndef, JNull, JNum(14)},
   temperature : {JUndef, JNull, JStrNum(21)},
   temp : {JUndef, JNum(22)},
   t : {JUndef, JNum(23), JStrText},
   cycle : {JUndef, JNull, JNum(1), JNum(-3), JStrNum(2), JStrText},
   cycleIndex : {JUndef, JNull, JNum(3)}]

\* The lines the device may deliver in SpecParse.
ParseLines == {ObjLine(o) : o \in ParseObjs} \cup {TextLine, BlankLine, BadJsonLine}

\* The connected loop of InitBuffer before its first line.
InitParse == InitBuffer /\ stream = 0

ParseRead == linesRead = 0 /\ \E line \in ParseLines : ReadValue(1, line)

NextParse ==
  \/ ParseRead
  \/ \E ok \in BOOLEAN : UploadResolve(1, ok)

\* The connected loop reads one line, of any form.
SpecParse == InitParse /\ [][NextParse]_vars

NextShutdown ==
  \/ NextConnect
  \/ DeviceLine
  \/ \E c \in 1..Len(conns), ok \in BOOLEAN : UploadResolve(c, ok)

\* io.close() of connection c returns
CloseReturns(c) == \E t \in Pending("close") : t.conn = c /\ CloseResolve(t)

\* the pending reader.read() of a closed connection returns or throws
ReadAfterClose(c) == ~conns[c].open /\ \E done \in BOOLEAN : ReadEnd(c, done)

\* the pending addData call of loop c returns or throws
UploadReturns(c) == \E ok \in BOOLEAN : UploadResolve(c, ok)

\* Every awaited promise of a loop settles, except a read on an open port,
\* which waits for as long as the device is silent.
FairShutdown ==
  \A c \in 1..MaxConns :
    /\ WF_vars(CloseReturns(c))
    /\ WF_vars(c <= Len(conns) /\ ReadAfterClose(c))
    /\ WF_vars(c <= Len(conns) /\ UploadReturns(c))

\* The operator connects and disconnects while the device sends lines.
SpecShutdown == InitConnect /\ [][NextShutdown]_vars /\ FairShutdown

(* ----------------------------- properties ------------------------------ *)
\* C1: in every reachable state the monitoring flag is true only if a
\* device connection is present.
C1_MonitoringOnlyWhileConnected == isMonitoring => io # NoIo

\* C2: when the stop command completes (writeLine("S") has returned), the
\* monitoring flag is false and startedFromDevice is false, however
\* monitoring was entered.
C2_StopClearsBoth ==
  [][(\E t \in BagToSet(tasks) : StopResolve(t, TRUE))
       => (~isMonitoring' /\ ~startedFromDevice')]_vars

\* C3: if monitoring is false, a session exists and a connection is open,
\* then a line the parser accepts sets monitoring and startedFromDevice to
\* true and the reading is added to the buffer.
C3_DeviceStartDetected ==
  [][\A c \in 1..Len(conns), line \in Lines :
       (/\ ~isMonitoring /\ session # NoSession /\ io # NoIo
        /\ parseLine(line).ok
        /\ ReadValue(c, line))
       => (/\ isMonitoring' /\ startedFromDevice'
           /\ Len(realtime') = Len(realtime) + 1)]_vars

\* C4: startedFromDevice is true only if the last change of the monitoring
\* flag from false to true was made by a decoded reading, not by the
\* operator's start command.
C4_StartedFromDeviceOnlyAfterDeviceStart == startedFromDevice => monCause = "device"

\* C5: a reset invoked while the monitoring flag is true changes nothing:
\* session, patient, connection, buffer, startedFromDevice and the
\* configuration values stay as they were, and no disconnect is begun.
C5_ResetRejectedWhileMonitoring ==
  [][(isMonitoring /\ lastOp' = "reset")
       => UNCHANGED <<session, patientId, io, conns, tasks, closeLoopRef, realtime,
                      startedFromDevice, targetPressure, holdTimeSeconds,
                      isMonitoring>>]_vars

C5_Witness ==
  /\ lastOp = "reset" /\ isMonitoring
  /\ session # NoSession /\ io # NoIo /\ Len(realtime) > 0

\* the step in which handleReset finishes: its clearing step after the
\* awaited close, or the whole handler when there is no io to close
ResetCompletes ==
  \/ lastOp' = "reset_cont"
  \/ lastOp' = "reset" /\ ~isMonitoring /\ io = NoIo

Cleared ==
  /\ session = NoSession /\ patientId = "" /\ io = 0
  /\ realtime = <<>> /\ ~startedFromDevice
  /\ targetPressure = 30 /\ holdTimeSeconds = 10

C7_BufferBounded == Len(realtime) <= 200

C7_Witness == Len(realtime) = 200 /\ Len(accepted) = 300

\* C8: the buffer equals the last min(n, 200) of the n readings accepted
\* since it was last empty, in arrival order.
C8_BufferIsLastAccepted ==
  LET n == Len(accepted)
      k == IF n < 200 THEN n ELSE 200
  IN /\ Len(realtime) = k
     /\ \A i \in 1..k : realtime[i] = accepted[n - k + i]

C8_Witness ==
  /\ Len(accepted) = 201 /\ Len(realtime) = 200
  /\ realtime[1] = accepted[2] /\ realtime[1] # accepted[1]
  /\ realtime[200] = accepted[201]

\* C9: every reading in the buffer has measuredPressure in [0,200] and
\* temperature in [0,80].
C9_BufferedReadingsClamped ==
  \A i \in 1..Len(realtime) :
    /\ realtime[i].measuredPressure >= 0 /\ realtime[i].measuredPressure <= 200
    /\ realtime[i].temperature >= 0 /\ realtime[i].temperature <= 80

\* x is raw brought into [0, hi]
InRange(x, raw, hi) ==
  /\ x >= 0 /\ x <= hi
  /\ (raw < 0) => (x = 0)
  /\ (raw > hi) => (x = hi)
  /\ (raw >= 0 /\ raw <= hi) => (x = raw)

\* C10: every addData call carries measuredPressure in [0,200] and
\* temperature in [0,80], equal to the decoded value brought into range.
C10_UploadsClamped ==
  \A i \in 1..Len(sent) :
    /\ InRange(sent[i].measuredPressure, sent[i].reading.measuredPressure, 200)
    /\ InRange(sent[i].temperature, sent[i].reading.temperature, 80)

C10_Witness ==
  \E i \in 1..Len(sent) :
    \/ sent[i].reading.measuredPressure = 250 /\ sent[i].measuredPressure = 200
    \/ sent[i].reading.temperature = 90 /\ sent[i].temperature = 80
       /\ sent[i].reading.measuredPressure = -5 /\ sent[i].measuredPressure = 0

\* C11: any two successive addData calls are dispatched at least 1000 ms
\* apart, whether or not the earlier call has completed.
C11_UploadsSpaced ==
  \A i \in 1..(Len(sent) - 1) : sent[i + 1].at - sent[i].at >= ThrottleMs

\* two calls were dispatched and a reading in between was held back
C11_Witness == Len(sent) >= 2 /\ Len(accepted) > Len(sent)

\* C12: with a session, an accepted reading that arrives at least 1000 ms
\* after the previous accepted reading is passed to addData.
C12_SpacedReadingsAllUploaded ==
  [][(/\ Len(accepted') = Len(accepted) + 1
      /\ conns[1].session # NoSession
      /\ now - lastOfferAt >= ThrottleMs)
     => /\ Len(sent') = Len(sent) + 1
        /\ sent'[Len(sent')].reading = accepted'[Len(accepted')]
        /\ sent'[Len(sent')].at = now]_vars

\* two readings exactly 1000 ms apart were both uploaded
C12_Witness ==
  /\ Len(sent) >= 2
  /\ sent[2].at - sent[1].at = ThrottleMs
  /\ Len(accepted) = Len(sent)

\* C13: an addData call that throws is swallowed: no error is shown, the
\* reading is neither sent again nor queued, and unless a disconnect was
\* requested the loop is back at its read, ready for the next line.
C13_UploadFailureSwallowed ==
  [][\A c \in 1..Len(conns) :
       UploadResolve(c, FALSE)
       => /\ err' = err
          /\ sent' = sent
          /\ tasks' = tasks
          /\ lastSentRef' = lastSentRef
          /\ realtime' = realtime
          /\ conns'[c].open = conns[c].open
          /\ (~closeLoopRef => conns'[c].pc = "reading")]_vars

\* a call has just failed after two readings; the loop reads on, no error shown
C13_Witness ==
  /\ lastOp = "upload_fail"
  /\ Len(sent) >= 2
  /\ conns[1].pc = "reading"
  /\ err = NoErr

\* C14: while an addData call of a loop is pending and its port is open,
\* the loop can still take and process the next line of the device.
C14_ReadNotBlockedByUpload ==
  \A c \in 1..Len(conns) :
    (conns[c].pc = "uploading" /\ conns[c].open) => ENABLED ReadValue(c, LineNormal)

\* the conditions of the control tuple that the permission formulas name
PatientSet == patientId \in PatientIds
SessionExists == session.id >= 1
DeviceSelected == selectedPortIdx \in 0..(NumPorts - 1)
ConnectionOpen == io \in 1..Len(conns)

\* C15: in every reachable state the six permissions equal their formulas
\* over the control tuple: create iff patient, no session and both protocol
\* values positive; pick iff session and not monitoring; connect iff
\* session, device selected and no connection; start iff session,
\* connection and not monitoring; stop iff session and monitoring; reset
\* iff not monitoring and (session or patient).
C15_PermissionsMatch ==
  /\ canCreateSession <=> (PatientSet /\ ~SessionExists /\ targetPressure > 0
                           /\ holdTimeSeconds > 0)
  /\ canPickDevice <=> (SessionExists /\ ~isMonitoring)
  /\ canConnect <=> (SessionExists /\ DeviceSelected /\ ~ConnectionOpen)
  /\ canStart <=> (SessionExists /\ ConnectionOpen /\ ~isMonitoring)
  /\ canStop <=> (SessionExists /\ isMonitoring)
  /\ canReset <=> (~isMonitoring /\ (SessionExists \/ PatientSet))

\* a patient is chosen and no session exists yet: only create and reset are permitted
C15_Witness ==
  /\ PatientSet /\ ~SessionExists /\ targetPressure > 0 /\ holdTimeSeconds > 0
  /\ canCreateSession /\ canReset
  /\ ~canPickDevice /\ ~canConnect /\ ~canStart /\ ~canStop

\* C16: pressing Create while canCreateSession is false (no patient, a
\* session exists, targetPressure <= 0 or holdTimeSeconds <= 0) starts no
\* backend call and leaves the control state unchanged.
C16_CreateRejected ==
  [][(CreateAttempt /\ ~canCreateSession)
     => UNCHANGED <<ctl, refs, tasks, nextSession, conns, sent>>]_vars

\* Create was pressed with a patient chosen and targetPressure 0: nothing is pending
C16_Witness ==
  /\ lastOp = "create_rejected"
  /\ patientId # NoPatient /\ session = NoSession /\ targetPressure <= 0
  /\ tasks = EmptyBag /\ ~loading /\ err = NoErr

\* the body of the request that sessionService.create posts
CreateDto == [id |-> 0, patientId |-> patientId, targetPressure |-> targetPressure,
              holdTimeSeconds |-> holdTimeSeconds]

\* C17: an enabled Create posts exactly the current patientId,
\* targetPressure and holdTimeSeconds; when the backend answers, the
\* returned session becomes the active session; when the call fails, an
\* error is shown and there is still no active session.
C17_CreateSendsAndStores ==
  [][/\ HandleCreateSession
        => \E t \in BagToSet(tasks') :
             /\ tasks' = AddTask(t)
             /\ t.kind = "create" /\ t.session = CreateDto
     /\ \A t \in Pending("create") :
          /\ CreateResolve(t, TRUE)
               => /\ session' = [t.session EXCEPT !.id = session'.id]
                  /\ session'.id >= 1
                  /\ err' = err
                  /\ Pending("create")' = {}
          /\ CreateResolve(t, FALSE)
               => /\ session' = NoSession
                  /\ err' # NoErr
                  /\ Pending("create")' = {}]_vars

\* createSession("p1", 30, 10) has returned and its session is the active one
C17_Witness ==
  /\ session.id >= 1
  /\ session.patientId = "p1"
  /\ session.targetPressure = DefaultTargetPressure
  /\ session.holdTimeSeconds = DefaultHoldTimeSeconds
  /\ ~loading /\ err = NoErr

OpenConns == {c \in 1..Len(conns) : conns[c].open}

\* C18: at most one connection is open, and no openPort call is made while
\* a connection is open or another openPort call is still in progress.
C18_SingleOpen ==
  /\ Cardinality(OpenConns) <= 1
  /\ PendingOpens <= 1
  /\ PendingOpens = 1 => OpenConns = {}

\* the aliases of the wire protocol, in the order in which they are tried
PressureAliases == <<"pressure", "measuredPressure", "p", "pr">>
TemperatureAliases == <<"temperature", "temp", "t">>
CycleAliases == <<"cycle", "cycleIndex">>

\* a field is present when its key carries a value; it is numeric when the
\* value is a number or the text of a number
IsPresent(v) == v.t \notin {"undef", "null"}
IsNumeric(v) == v.t \in {"num", "strnum"}

RECURSIVE FirstPresent(_, _)
FirstPresent(obj, aliases) ==
  IF aliases = <<>> THEN JUndef
  ELSE IF IsPresent(obj[Head(aliases)]) THEN obj[Head(aliases)]
  ELSE FirstPresent(obj, Tail(aliases))

\* the line read has a pressure and a temperature that are finite numbers
HasFiniteBoth ==
  /\ lastLine.shape = "object"
  /\ IsNumeric(FirstPresent(lastLine.obj, PressureAliases))
  /\ IsNumeric(FirstPresent(lastLine.obj, TemperatureAliases))

\* C19: a JSON object line whose pressure and temperature aliases are
\* finite numbers yields a reading with exactly those values; its
\* cycleIndex is the cycle value when that is present and numeric and is
\* absent otherwise.
C19_ParseAccepts ==
  HasFiniteBoth
  => /\ Len(accepted) = 1
     /\ accepted[1].measuredPressure = FirstPresent(lastLine.obj, PressureAliases).v
     /\ accepted[1].temperature = FirstPresent(lastLine.obj, TemperatureAliases).v
     /\ LET cycle == FirstPresent(lastLine.obj, CycleAliases)
        IN IF IsNumeric(cycle)
           THEN accepted[1].hasCycle /\ accepted[1].cycleIndex = cycle.v
           ELSE ~accepted[1].hasCycle

C21_CycleIndexNonNegative ==
  /\ \A i \in 1..Len(accepted) : accepted[i].hasCycle => accepted[i].cycleIndex >= 0
  /\ \A i \in 1..Len(realtime) : realtime[i].hasCycle => realtime[i].cycleIndex >= 0
  /\ \A i \in 1..Len(sent) : sent[i].hasCycle => sent[i].cycleIndex >= 0

\* the step reads a line that is blank, not a JSON object, malformed, or
\* without a finite pressure or temperature
ReadsRejectedLine ==
  /\ linesRead' = linesRead + 1
  /\ (lastLine'.shape = "blank" \/ ~parseLine(lastLine').ok)

\* C22: a line that parseLine rejects changes neither the buffer, the
\* monitoring flag, startedFromDevice, the throttle state nor the error
\* shown, and starts no backend call.
C22_RejectedLineNoEffect ==
  [][ReadsRejectedLine
     => UNCHANGED <<realtime, isMonitoring, startedFromDevice, lastSentRef, err,
                    sent, tasks, session, io>>]_vars

\* "not-json" was read while the operator had started monitoring
C22_Witness ==
  /\ lastLine = TextLine
  /\ linesRead >= 1
  /\ isMonitoring /\ ~startedFromDevice
  /\ realtime = <<>> /\ sent = <<>>

\* C23: in every reachable state a non-empty buffer implies an active session.
C23_BufferImpliesSession == realtime # <<>> => session # NoSession

\* the operator has asked to close connection c: io.close() is pending or done
Cancelled(c) ==
  \/ ~conns[c].open
  \/ \E t \in Pending("close") : t.conn = c

\* C24: a loop whose connection the operator has disconnected (or reset)
\* exits without an error being shown, whatever was done in between.
C24_CancelledLoopExitsSilently ==
  [][\A c \in 1..Len(conns) :
       (Cancelled(c) /\ conns[c].pc # "done" /\ conns'[c].pc = "done") => err' = err]_vars

LoopDone(c) == c <= Len(conns) /\ conns[c].pc = "done"

C26_ReadErrorSurfaced ==
  [][\A c \in 1..Len(conns) :
       (ReadEnd(c, FALSE) /\ ~Cancelled(c))
       => /\ err' # NoErr
          /\ conns'[c].pc = "done"
          /\ tasks' = tasks
          /\ Len(conns') = Len(conns)]_vars

\* C27: when writeLine of the start or stop command throws, an error is
\* shown, the loop of that connection ends, and isMonitoring is unchanged.
C27_WriteFailureSurfaced ==
  [][\A t \in Pending("start") \cup Pending("stop") :
       (StartResolve(t, FALSE) \/ StopResolve(t, FALSE))
       => /\ err' # NoErr
          /\ conns'[t.conn].pc = "done"
          /\ isMonitoring' = isMonitoring]_vars

\* C28: when a reset completes the control state is the initial one with
\* isMonitoring false, also when a line was processed while the reset was
\* closing the connection; and until a session is created again nothing
\* is buffered and no flag is set.
C28_ResetRestoresInitial ==
  /\ [][ResetCompletes
        => (Cleared' /\ ~isMonitoring' /\ selectedPortIdx' = -1 /\ err' = NoErr)]_vars
  /\ [](session = NoSession => (realtime = <<>> /\ ~isMonitoring /\ ~startedFromDevice))

\* C29: in every reachable state where canStop is true, invoking stop takes
\* effect: the stop command is being written, to end with isMonitoring
\* false, or isMonitoring is false already.
C29_StopTakesEffect ==
  [][(canStop /\ HandleStop) => (Pending("stop")' # {} \/ ~isMonitoring')]_vars

\* the loops that have not ended
LiveLoops == {c \in 1..Len(conns) : conns[c].pc # "done"}

\* C30: in every reachable state a connection that is reported as present
\* has its loop live (after the loop has ended on end-of-stream or on a read
\* error the connection is no longer present), and at most one loop is live.
C30_PresenceMatchesLoop ==
  /\ io # NoIo => io \in LiveLoops
  /\ Cardinality(LiveLoops) <= 1
====
